---- MODULE Spec2Model ----
(***************************************************************************)
(* OnboardAI generation pipeline: the video render route (POST             *)
(* /api/video/render), the narration fallback chain, the ffmpeg assembly    *)
(* helpers, and the script route (LLM call, retry, parse repair, schema     *)
(* repair).                                                                 *)
(***************************************************************************)
EXTENDS Integers, Sequences, FiniteSets, TLC

(***************************************************************************)
(* Bounds                                                                   *)
(***************************************************************************)
\* largest script.scenes.length of a render request
MaxScenes == 1
\* largest value Date.now() takes while requests arrive
MaxClock == 2
\* failures of external calls the environment produces while two requests overlap
MaxFaults == 1

\* two render requests, numbered in arrival order
Runs == {1, 2}

VARIABLES
    now,          \* Date.now()
    rpc,          \* per run: the await the handler is suspended at
    tempDir,      \* per run: token of tmp/video_<token>, 0 = null
    nScenes,      \* per run: script.scenes.length
    idx,          \* per run: loop variable i of the scene loop
    segments,     \* per run: const segments: string[]
    lastAudio,    \* per run: outcome of the last generateSceneAudio call
    cardCmd,      \* per run: ffmpeg command chosen for the card in progress
    execOk,       \* per run: whether the last external ffmpeg call resolved
    failed,       \* per run: the steps that failed so far (history)
    concatArg,    \* per run: argument of concatenateVideos, once called
    response,     \* per run: the NextResponse.json returned
    okBody,       \* per run: video and metadata of the success response
    fsRoot,       \* tokens whose tmp/video_<token> exists
    fsSub,        \* token -> subdirectories that exist
    fsTop,        \* token -> files directly in tmp/video_<token>
    fsSeg,        \* token -> files in tmp/video_<token>/segments
    fsFrames,     \* token -> files in tmp/video_<token>/frames
    fsAudio,      \* files in the process-wide tmp/audio
    pending,      \* render requests that have not arrived yet
    faultsLeft,   \* failures the environment may still produce, -1 = any number
    spc,          \* script route: the await the handler is suspended at
    attempt,      \* script route: loop variable of the retry loop
    text,         \* script route: resp.text of the initial call
    json,         \* script route: the value JSON.parse returned
    calls,        \* script route: the LLM calls made so far (history)
    delays,       \* script route: the backoff delays slept so far, in seconds
    netCalls,     \* script route: GitHub requests made so far (history)
    geminiKey,    \* whether GEMINI_API_KEY is set
    edits,        \* how the LLM's object differs from a complete script (history)
    result,       \* script route: the NextResponse.json returned
    retryText,    \* script route: resp.text of the corrective call (history)
    llmScript,    \* the script object the model writes for this repository
    tpc,          \* generateSceneAudio: the await the call is suspended at
    elevenKey,    \* whether ELEVENLABS_API_KEY is set
    tried,        \* generateSpeech: providers called, with outcome and result (history)
    audioBuffer,  \* generateSceneAudio: what generateSpeech resolved to
    asset,        \* generateSceneAudio: the value returned
    narration,    \* estimateAudioDuration: its argument
    duration      \* estimateAudioDuration: the value returned, 0 = none yet

renderVars == <<now, rpc, tempDir, nScenes, idx, segments, lastAudio, cardCmd,
                execOk, failed, concatArg, response, okBody,
                fsRoot, fsSub, fsTop, fsSeg, fsFrames, fsAudio, pending, faultsLeft>>
fsVars == <<fsRoot, fsSub, fsTop, fsSeg, fsFrames, fsAudio>>

scriptVars == <<spc, attempt, text, json, calls, delays, netCalls, geminiKey,
                edits, result, retryText, llmScript>>

speechVars == <<tpc, elevenKey, tried, audioBuffer, asset, narration, duration>>

vars == <<renderVars, scriptVars, speechVars>>

Tokens == 1..MaxClock
SubDirs == {"audio", "frames", "segments"}
\* mkdirSync calls of the route, in order: tempDir, audioDir, frameDir, segmentDir
MkdirOrder == <<"root", "audio", "frames", "segments">>
\* readdirSync order of the files the route keeps directly in tempDir
TopOrder == <<"concat.txt", "final_video.mp4", "raw_video.mp4">>
TopNames == {TopOrder[k] : k \in 1..Len(TopOrder)}

NoAudio == [speech |-> "none", io |-> "none", kind |-> "none", scene |-> 0 - 1]

(***************************************************************************)
(* src/lib/tts.ts: the provider chain.  A provider outcome is "throw"       *)
(* (fetch or arrayBuffer rejects), "status" (a response that is not ok), or *)
(* the size class of the body of an ok response:                            *)
(* "empty" (0 bytes), "small" (1..100 bytes), "audio" (more than 100).      *)
(***************************************************************************)
ProviderOutcomes == {"throw", "status", "empty", "small", "audio"}

\* the errors a provider function's try block raises
ProviderFailures == {"throw", "status"}

\* tryGoogleTranslateTTS without its catch: the error leaves the function
tryGoogleTranslateTTSNoCatch(o) == IF o \in ProviderFailures THEN "thrown" ELSE o
tryGoogleTranslateTTS(o) == IF o \in ProviderFailures THEN "null" ELSE o

tryElevenlabsTTS(o) == IF o \in ProviderFailures THEN "null" ELSE o

tryResponsiveVoiceTTS(o) == IF o = "audio" THEN o ELSE "null"

\* generateSpeech: the provider called after provider p returned null
NextProviderAnyKey(p, hasKey) ==
    IF p = "google" THEN "elevenlabs"
    ELSE IF p = "elevenlabs" THEN "responsivevoice"
    ELSE "none"
NextProvider(p, hasKey) ==
    IF p = "google" THEN IF hasKey THEN "elevenlabs" ELSE "responsivevoice"
    ELSE IF p = "elevenlabs" THEN "responsivevoice"
    ELSE "none"

\* the provider function called for provider p, applied to its outcome o
tryProvider(p, o) ==
    IF p = "google" THEN tryGoogleTranslateTTS(o)
    ELSE IF p = "elevenlabs" THEN tryElevenlabsTTS(o)
    ELSE tryResponsiveVoiceTTS(o)

\* a Buffer, also an empty one, is truthy: only null falls through
generateSpeech(g, hasKey, e, v) ==
    IF tryGoogleTranslateTTS(g) # "null" THEN tryGoogleTranslateTTS(g)
    ELSE IF hasKey /\ tryElevenlabsTTS(e) # "null" THEN tryElevenlabsTTS(e)
    ELSE tryResponsiveVoiceTTS(v)

(***************************************************************************)
(* src/lib/github.ts (lib/video.ts part): generateSceneAudio.  io is        *)
(* whether createSilentAudio, mkdirSync and writeFileSync went through.     *)
(***************************************************************************)
\* no silent fallback: a null from generateSpeech is passed on
generateSceneAudioNoFallback(speech, io, i) ==
    IF io # "ok" \/ speech = "null"
    THEN [speech |-> speech, io |-> io, kind |-> "null", scene |-> i]
    ELSE [speech |-> speech, io |-> io, kind |-> "tts", scene |-> i]
generateSceneAudio(speech, io, i) ==
    IF io # "ok" \/ speech = "thrown" THEN [speech |-> speech, io |-> io, kind |-> "null", scene |-> i]
    ELSE IF speech = "null"
         THEN [speech |-> speech, io |-> io, kind |-> "silent", scene |-> i]
         ELSE [speech |-> speech, io |-> io, kind |-> "tts", scene |-> i]

\* writeFileSync(path, data): replaces the file of that name
WriteFile(dir, name, data) == {f \in dir : f[1] # name} \cup {<<name, data>>}
RemoveFile(dir, name) == {f \in dir : f[1] # name}
FileExists(dir, name) == \E f \in dir : f[1] = name

(***************************************************************************)
(* estimateAudioDuration (src/lib/github.ts lines 498-502).  A narration is *)
(* a sequence of runs: "w" is a word, a maximal run of characters that are  *)
(* not whitespace, and "s" is a maximal run of whitespace.                  *)
(***************************************************************************)
\* most words in a narration
MaxWords == 125

\* the narration of n words, with or without whitespace before and after
Narration(lead, n, trail) ==
    LET body == [i \in 1..(2 * n - 1) |-> IF i % 2 = 1 THEN "w" ELSE "s"]
    IN IF n = 0 THEN (IF lead \/ trail THEN <<"s">> ELSE <<>>)
       ELSE (IF lead THEN <<"s">> ELSE <<>>) \o body
            \o (IF trail THEN <<"s">> ELSE <<>>)
Narrations == {Narration(l, n, t) : l \in BOOLEAN, n \in 0..MaxWords, t \in BOOLEAN}

\* text.split(/\s+/): the pieces between the whitespace runs, the empty
\* piece before a leading run and after a trailing run included
split(t) ==
    LET cuts == {i \in 1..Len(t) : t[i] = "s"}
        piece(i) == IF i \in cuts \/ i < 1 \/ i > Len(t) THEN "" ELSE t[i]
    IN IF t = <<>> THEN <<"">>
       ELSE IF cuts = {} THEN t
       ELSE <<piece(1)>> \o
            [k \in 1..(Len(SelectSeq(t, LAMBDA c : c = "s"))) |->
                LET at == CHOOSE i \in cuts : Cardinality({j \in cuts : j <= i}) = k
                IN piece(at + 1)]

\* Math.ceil(wordCount / 2.5)
CeilDiv2p5(n) == (2 * n + 4) \div 5
Max(a, b) == IF a >= b THEN a ELSE b

\* lines 499-502
estimateAudioDuration(t) == Max(5, CeilDiv2p5(Len(split(t))))

(***************************************************************************)
(* src/lib/videoAssembly.ts: cleanupTempFiles.  bad is the entry whose      *)
(* statSync/unlinkSync throws ("none": no entry does).                      *)
(***************************************************************************)
TopIndex(name) == CHOOSE k \in 1..Len(TopOrder) : TopOrder[k] = name

cleanupTop(top, bad) ==
    IF bad \in top
    THEN {f \in top : TopIndex(f) > TopIndex(bad)} \cup {bad}
    ELSE {}

cleanupRemovesDir(top, sub, bad) == bad \notin top /\ sub = {}


(***************************************************************************)
(* Render route helpers                                                     *)
(***************************************************************************)
IntroUnit == 0
SceneUnit(i) == i + 1
OutroUnit(n) == n + 1
NoUnit == 0 - 1

\* path.join(segmentDir, ...): <<token, ordinal in the file name, kind>>
introPath(td) == <<td, 0, "intro">>
\* a scene's file named by its index
segmentPathByIndex(td, i) == <<td, i, "scene">>
segmentPath(td, i) == <<td, i + 1, "scene">>
outroPath(td, n) == <<td, n + 2, "outro">>

CardUnit(card, n) == IF card = "intro" THEN IntroUnit ELSE OutroUnit(n)
CardPath(card, td, n) == IF card = "intro" THEN introPath(td) ELSE outroPath(td, n)
CardFrame(card) == <<0, IF card = "intro" THEN "intro_frame" ELSE "outro_frame">>
CardSilentFile(card) == <<0, IF card = "intro" THEN "intro_silent" ELSE "outro_silent">>
SegFileName(path) == <<path[2], path[3]>>

\* a push at the wrong end of the list
PushSegmentFront(segs, path) == <<path>> \o segs
\* segments.push(path)
PushSegment(segs, path) == Append(segs, path)

\* for (let i = 0; i < script.scenes.length; i++)
LoopPc(n, i) == IF i < n THEN "audio" ELSE "outroCanvas"

Respond(r, msg) ==
    /\ rpc' = [rpc EXCEPT ![r] = "done"]
    /\ response' = [response EXCEPT ![r] = msg]

\* the catch block of the route: cleanupTempFiles(tempDir) if it exists
CatchRoot(root, sub, top, td, bad) ==
    IF td \in root /\ cleanupRemovesDir(top[td], sub[td], bad)
    THEN root \ {td} ELSE root
CatchTop(root, top, td, bad) ==
    IF td \in root THEN [top EXCEPT ![td] = cleanupTop(top[td], bad)] ELSE top

(***************************************************************************)
(* The environment: a failing outcome of an external call (network, canvas, *)
(* ffmpeg, file system) spends one of the failures it may still produce.    *)
(***************************************************************************)
Cost(okay) == IF okay THEN 0 ELSE 1
Spend(k) ==
    /\ faultsLeft < 0 \/ faultsLeft >= k
    /\ faultsLeft' = IF faultsLeft < 0 THEN faultsLeft ELSE faultsLeft - k

\* the entry of tempDir whose statSync/unlinkSync throws during cleanup
CleanupChoices(td) == {"none"} \cup (IF td \in Tokens THEN fsTop[td] ELSE {})

(***************************************************************************)
(* POST /api/video/render, up to the first await of createIntroCard         *)
(***************************************************************************)
Receive(r) ==
    /\ rpc[r] = "idle"
    /\ pending > 0
    /\ \A q \in Runs : q < r => rpc[q] # "idle"
    /\ pending' = pending - 1
    /\ \/ /\ Respond(r, "exception")             \* req.json() throws
          /\ Spend(0)
          /\ UNCHANGED <<okBody, now, tempDir, nScenes, idx, segments, lastAudio,
                         cardCmd, execOk, failed, concatArg, fsVars>>
       \/ /\ Respond(r, "script is required")
          /\ Spend(0)
          /\ UNCHANGED <<okBody, now, tempDir, nScenes, idx, segments, lastAudio,
                         cardCmd, execOk, failed, concatArg, fsVars>>
       \/ /\ Respond(r, "Invalid script format")
          /\ Spend(0)
          /\ UNCHANGED <<okBody, now, tempDir, nScenes, idx, segments, lastAudio,
                         cardCmd, execOk, failed, concatArg, fsVars>>
       \/ \E n \in 0..MaxScenes, made \in 0..4, bad \in CleanupChoices(now) :
            LET td == now
                root1 == IF made >= 1 THEN fsRoot \cup {td} ELSE fsRoot
                sub1 == [fsSub EXCEPT ![td] =
                           @ \cup {MkdirOrder[k] : k \in 2..made}]
            IN /\ (td \in fsRoot => made >= 1)
               /\ Spend(Cost(made = 4) + Cost(bad = "none"))
               /\ tempDir' = [tempDir EXCEPT ![r] = td]
               /\ nScenes' = [nScenes EXCEPT ![r] = n]
               /\ fsSub' = sub1
               /\ IF made = 4
                  THEN /\ bad = "none"
                       /\ rpc' = [rpc EXCEPT ![r] = "introCanvas"]
                       /\ fsRoot' = root1
                       /\ UNCHANGED <<response, failed, fsTop>>
                  ELSE /\ Respond(r, "exception")
                       /\ failed' = [failed EXCEPT ![r] = @ \cup {<<NoUnit, "mkdir">>}]
                       /\ fsRoot' = CatchRoot(root1, sub1, fsTop, td, bad)
                       /\ fsTop' = CatchTop(root1, fsTop, td, bad)
               /\ UNCHANGED <<okBody, now, idx, segments, lastAudio, cardCmd, execOk,
                              concatArg, fsSeg, fsFrames, fsAudio>>

(***************************************************************************)
(* lines 313-323: the zero-segment check and the start of concatenateVideos *)
(* (createConcatFile; a throw there is caught inside concatenateVideos).    *)
(* k is the number of failures the calling step has already produced.       *)
(***************************************************************************)
\* line 313 asking for three segments: the two cards alone do not count
AssembleNeedsScene(r, segs, fl, k) ==
    IF Len(segs) <= 2
    THEN /\ Respond(r, "Failed to generate any video segments")
         /\ Spend(k)
         /\ failed' = [failed EXCEPT ![r] = fl]
         /\ UNCHANGED <<concatArg, fsTop>>
    ELSE /\ concatArg' = [concatArg EXCEPT ![r] = segs]
         /\ \/ /\ fsTop' = [fsTop EXCEPT ![tempDir[r]] = @ \cup {"concat.txt"}]
               /\ Spend(k)
               /\ rpc' = [rpc EXCEPT ![r] = "concatExec"]
               /\ failed' = [failed EXCEPT ![r] = fl]
               /\ UNCHANGED response
            \/ /\ Respond(r, "Failed to concatenate video segments")
               /\ Spend(k + 1)
               /\ failed' = [failed EXCEPT ![r] = fl \cup {<<NoUnit, "manifest">>}]
               /\ UNCHANGED fsTop
\* lines 313-323
Assemble(r, segs, fl, k) ==
    IF segs = <<>>
    THEN /\ Respond(r, "Failed to generate any video segments")
         /\ Spend(k)
         /\ failed' = [failed EXCEPT ![r] = fl]
         /\ UNCHANGED <<concatArg, fsTop>>
    ELSE /\ concatArg' = [concatArg EXCEPT ![r] = segs]
         /\ \/ /\ fsTop' = [fsTop EXCEPT ![tempDir[r]] = @ \cup {"concat.txt"}]
               /\ Spend(k)
               /\ rpc' = [rpc EXCEPT ![r] = "concatExec"]
               /\ failed' = [failed EXCEPT ![r] = fl]
               /\ UNCHANGED response
            \/ /\ Respond(r, "Failed to concatenate video segments")
               /\ Spend(k + 1)
               /\ failed' = [failed EXCEPT ![r] = fl \cup {<<NoUnit, "manifest">>}]
               /\ UNCHANGED fsTop

\* what follows a card: the scene loop after the intro, assembly after the outro
AfterCard(r, card, segs, fl, k) ==
    IF card = "intro"
    THEN /\ idx' = [idx EXCEPT ![r] = 0]
         /\ rpc' = [rpc EXCEPT ![r] = LoopPc(nScenes[r], 0)]
         /\ failed' = [failed EXCEPT ![r] = fl]
         /\ Spend(k)
         /\ UNCHANGED <<response, concatArg, fsTop>>
    ELSE /\ Assemble(r, segs, fl, k)
         /\ UNCHANGED idx

(***************************************************************************)
(* createIntroCard / createOutroCard                                        *)
(***************************************************************************)
\* canvas import, drawing and the frame's writeFileSync
CardCanvas(r, card) ==
    /\ rpc[r] = card \o "Canvas"
    /\ \/ /\ fsSeg' = [fsSeg EXCEPT ![tempDir[r]] = WriteFile(@, CardFrame(card), "png")]
          /\ rpc' = [rpc EXCEPT ![r] = card \o "Silent"]
          /\ Spend(0)
          /\ UNCHANGED <<idx, failed, response, concatArg, fsTop>>
       \/ /\ AfterCard(r, card, segments[r],
                       failed[r] \cup {<<CardUnit(card, nScenes[r]), "canvas">>}, 1)
          /\ UNCHANGED fsSeg
    /\ UNCHANGED <<okBody, now, tempDir, nScenes, segments, lastAudio, cardCmd, execOk,
                   fsRoot, fsSub, fsFrames, fsAudio, pending>>

\* the anullsrc ffmpeg call, then the choice of the encode command
CardSilent(r, card) ==
    /\ rpc[r] = card \o "Silent"
    /\ \E ok \in BOOLEAN :
         LET seg1 == IF ok THEN WriteFile(fsSeg[tempDir[r]], CardSilentFile(card), "aac")
                     ELSE fsSeg[tempDir[r]]
         IN /\ Spend(Cost(ok))
            /\ fsSeg' = [fsSeg EXCEPT ![tempDir[r]] = seg1]
            /\ cardCmd' = [cardCmd EXCEPT ![r] =
                             IF FileExists(seg1, CardSilentFile(card)) THEN "av" ELSE "v"]
    /\ rpc' = [rpc EXCEPT ![r] = card \o "Encode"]
    /\ UNCHANGED <<okBody, now, tempDir, nScenes, idx, segments, lastAudio, execOk, failed,
                   concatArg, response, fsRoot, fsSub, fsTop, fsFrames, fsAudio, pending>>

\* the encode ffmpeg call, the frame's unlink, and the route's push
CardEncode(r, card) ==
    /\ rpc[r] = card \o "Encode"
    /\ LET td == tempDir[r]
           path == CardPath(card, td, nScenes[r])
       IN \/ /\ fsSeg' = [fsSeg EXCEPT ![td] =
                            RemoveFile(WriteFile(@, SegFileName(path), cardCmd[r]),
                                       CardFrame(card))]
             /\ segments' = [segments EXCEPT ![r] = PushSegment(@, path)]
             /\ AfterCard(r, card, PushSegment(segments[r], path), failed[r], 0)
          \/ /\ AfterCard(r, card, segments[r],
                          failed[r] \cup {<<CardUnit(card, nScenes[r]), "encode">>}, 1)
             /\ UNCHANGED <<fsSeg, segments>>
    /\ UNCHANGED <<okBody, now, tempDir, nScenes, lastAudio, cardCmd, execOk,
                   fsRoot, fsSub, fsFrames, fsAudio, pending>>

IntroCanvas(r) == CardCanvas(r, "intro")
IntroSilent(r) == CardSilent(r, "intro")
IntroEncode(r) == CardEncode(r, "intro")
OutroCanvas(r) == CardCanvas(r, "outro")
OutroSilent(r) == CardSilent(r, "outro")
OutroEncode(r) == CardEncode(r, "outro")

(***************************************************************************)
(* The scene loop of the route, lines 260-299                               *)
(***************************************************************************)
\* a failing scene is tried again instead of being skipped
SkipSceneRetry(r, cause) ==
    /\ failed' = [failed EXCEPT ![r] = @ \cup {<<SceneUnit(idx[r]), cause>>}]
    /\ rpc' = [rpc EXCEPT ![r] = "audio"]
    /\ UNCHANGED <<idx, response, fsRoot, fsTop>>
\* a failing scene ends the run instead of being skipped
SkipSceneAbort(r, cause) ==
    /\ failed' = [failed EXCEPT ![r] = @ \cup {<<SceneUnit(idx[r]), cause>>}]
    /\ Respond(r, "exception")
    /\ UNCHANGED <<idx, fsRoot, fsTop>>
\* `continue`, or the end of the loop body: scene i is left without a segment
SkipScene(r, cause) ==
    /\ failed' = [failed EXCEPT ![r] = @ \cup {<<SceneUnit(idx[r]), cause>>}]
    /\ idx' = [idx EXCEPT ![r] = @ + 1]
    /\ rpc' = [rpc EXCEPT ![r] = LoopPc(nScenes[r], idx[r] + 1)]
    /\ UNCHANGED <<response, fsRoot, fsTop>>

\* an exception that reaches the catch block of the route
Throw(r, fl, bad) ==
    /\ Respond(r, "exception")
    /\ failed' = [failed EXCEPT ![r] = fl]
    /\ fsRoot' = CatchRoot(fsRoot, fsSub, fsTop, tempDir[r], bad)
    /\ fsTop' = CatchTop(fsRoot, fsTop, tempDir[r], bad)

\* file name of the audio asset in tmp/audio: scene_<i>.mp3, scene_<i>_silent.mp3
AudioFile(res) == <<res.scene, res.kind>>

\* await generateSceneAudio(scene.narration, `scene_${i}`) and its null check
SceneAudio(r) ==
    /\ rpc[r] = "audio"
    /\ \E g \in ProviderOutcomes, e \in ProviderOutcomes, v \in ProviderOutcomes,
          hasKey \in BOOLEAN, io \in {"ok", "throw"} :
         LET res == generateSceneAudio(generateSpeech(g, hasKey, e, v), io, idx[r])
         IN /\ Spend(Cost(g = "audio") + Cost(io = "ok"))
            /\ lastAudio' = [lastAudio EXCEPT ![r] = res]
            /\ IF res.kind = "null"
               THEN /\ SkipScene(r, "audio")
                    /\ UNCHANGED fsAudio
               ELSE /\ fsAudio' = WriteFile(fsAudio, AudioFile(res), <<r, res.speech>>)
                    /\ rpc' = [rpc EXCEPT ![r] = "frame"]
                    /\ UNCHANGED <<failed, idx, response, fsRoot, fsTop>>
    /\ UNCHANGED <<okBody, now, tempDir, nScenes, segments, cardCmd, execOk, concatArg,
                   fsSub, fsSeg, fsFrames, pending>>

\* await generateVisualFrame(scene), writeFileSync(framePath), and
\* createVideoSegment up to its ffmpeg call
SceneFrame(r) ==
    /\ rpc[r] = "frame"
    /\ \/ /\ SkipScene(r, "frame")                 \* frameBuffer is null
          /\ Spend(1)
          /\ UNCHANGED fsFrames
       \/ \E bad \in CleanupChoices(tempDir[r]) :  \* writeFileSync throws
            /\ Throw(r, failed[r] \cup {<<SceneUnit(idx[r]), "save">>}, bad)
            /\ Spend(1 + Cost(bad = "none"))
            /\ UNCHANGED <<idx, fsFrames>>
       \/ /\ fsFrames' = [fsFrames EXCEPT ![tempDir[r]] = @ \cup {idx[r]}]
          /\ Spend(0)
          /\ IF FileExists(fsAudio, AudioFile(lastAudio[r]))
             THEN /\ rpc' = [rpc EXCEPT ![r] = "segment"]
                  /\ UNCHANGED <<failed, idx, response, fsRoot, fsTop>>
             ELSE SkipScene(r, "segment")
    /\ UNCHANGED <<okBody, now, tempDir, nScenes, segments, lastAudio, cardCmd, execOk,
                   concatArg, fsSub, fsSeg, fsAudio, pending>>

\* what the scene's ffmpeg call leaves behind: it throws, resolves without
\* an output file, or writes an empty or a playable file
SegmentOutcomes == {"throw", "nofile", "empty", "av"}

\* createVideoSegment after the ffmpeg call: existsSync(outputPath)
createVideoSegment(out, segDir, name) ==
    out # "throw" /\ FileExists(segDir, name)

SceneSegment(r) ==
    /\ rpc[r] = "segment"
    /\ \E out \in SegmentOutcomes :
         LET td == tempDir[r]
             path == segmentPath(td, idx[r])
             seg1 == IF out \in {"empty", "av"}
                     THEN WriteFile(fsSeg[td], SegFileName(path), out)
                     ELSE fsSeg[td]
         IN /\ Spend(Cost(out = "av"))
            /\ fsSeg' = [fsSeg EXCEPT ![td] = seg1]
            /\ IF createVideoSegment(out, seg1, SegFileName(path))
               THEN /\ segments' = [segments EXCEPT ![r] = PushSegment(@, path)]
                    /\ idx' = [idx EXCEPT ![r] = @ + 1]
                    /\ rpc' = [rpc EXCEPT ![r] = LoopPc(nScenes[r], idx[r] + 1)]
                    /\ UNCHANGED <<failed, response, fsRoot, fsTop>>
               ELSE /\ SkipScene(r, "segment")
                    /\ UNCHANGED segments
    /\ UNCHANGED <<okBody, now, tempDir, nScenes, lastAudio, cardCmd, execOk, concatArg,
                   fsSub, fsFrames, fsAudio, pending>>

(***************************************************************************)
(* concatenateVideos and optimizeVideo, and the rest of the route           *)
(***************************************************************************)
\* the concat ffmpeg process: it cannot succeed without its manifest
ConcatExec(r) ==
    /\ rpc[r] = "concatExec"
    /\ \E ok \in BOOLEAN :
         /\ ok => "concat.txt" \in fsTop[tempDir[r]]
         /\ Spend(IF "concat.txt" \in fsTop[tempDir[r]] THEN Cost(ok) ELSE 0)
         /\ execOk' = [execOk EXCEPT ![r] = ok]
         /\ fsTop' = [fsTop EXCEPT ![tempDir[r]] =
                        IF ok THEN @ \cup {"raw_video.mp4"} ELSE @]
    /\ rpc' = [rpc EXCEPT ![r] = "concatResume"]
    /\ UNCHANGED <<okBody, now, tempDir, nScenes, idx, segments, lastAudio, cardCmd, failed,
                   concatArg, response, fsRoot, fsSub, fsSeg, fsFrames, fsAudio, pending>>

\* a route that goes on to optimizeVideo whatever concatenateVideos returned
ConcatResumeUnchecked(r) ==
    /\ rpc[r] = "concatResume"
    /\ LET td == tempDir[r]
           top1 == IF execOk[r] THEN fsTop[td] \ {"concat.txt"} ELSE fsTop[td]
       IN /\ fsTop' = [fsTop EXCEPT ![td] = top1]
          /\ rpc' = [rpc EXCEPT ![r] = "optimizeExec"]
          /\ UNCHANGED <<failed, response>>
    /\ UNCHANGED <<okBody, now, tempDir, nScenes, idx, segments, lastAudio, cardCmd, execOk,
                   concatArg, fsRoot, fsSub, fsSeg, fsFrames, fsAudio, pending, faultsLeft>>

\* concatenateVideos after the ffmpeg call, and the route's check of its result
ConcatResume(r) ==
    /\ rpc[r] = "concatResume"
    /\ LET td == tempDir[r]
           top1 == IF execOk[r] THEN fsTop[td] \ {"concat.txt"} ELSE fsTop[td]
       IN /\ fsTop' = [fsTop EXCEPT ![td] = top1]
          /\ IF execOk[r] /\ "raw_video.mp4" \in top1
             THEN /\ rpc' = [rpc EXCEPT ![r] = "optimizeExec"]
                  /\ UNCHANGED <<failed, response>>
             ELSE /\ Respond(r, "Failed to concatenate video segments")
                  /\ failed' = [failed EXCEPT ![r] = @ \cup {<<NoUnit, "concat">>}]
    /\ UNCHANGED <<okBody, now, tempDir, nScenes, idx, segments, lastAudio, cardCmd, execOk,
                   concatArg, fsRoot, fsSub, fsSeg, fsFrames, fsAudio, pending, faultsLeft>>

\* the optimize ffmpeg process: it cannot succeed without its input file
OptimizeExec(r) ==
    /\ rpc[r] = "optimizeExec"
    /\ \E ok \in BOOLEAN :
         /\ ok => "raw_video.mp4" \in fsTop[tempDir[r]]
         /\ Spend(IF "raw_video.mp4" \in fsTop[tempDir[r]] THEN Cost(ok) ELSE 0)
         /\ execOk' = [execOk EXCEPT ![r] = ok]
         /\ fsTop' = [fsTop EXCEPT ![tempDir[r]] =
                        IF ok THEN @ \cup {"final_video.mp4"} ELSE @]
    /\ rpc' = [rpc EXCEPT ![r] = "optimizeResume"]
    /\ UNCHANGED <<okBody, now, tempDir, nScenes, idx, segments, lastAudio, cardCmd, failed,
                   concatArg, response, fsRoot, fsSub, fsSeg, fsFrames, fsAudio, pending>>

\* the narration of scene i of the script: thirteen words and more
SceneNarration(i) == Narration(FALSE, 13 + i, FALSE)

\* estimateAudioDuration(s.narration) of each scene of the script
SceneDurations == [i \in 0..MaxScenes |-> estimateAudioDuration(SceneNarration(i))]

RECURSIVE SumDurations(_)
\* script.scenes.reduce((sum, s) => sum + estimateAudioDuration(s.narration), 7)
SumDurations(n) ==
    IF n = 0 THEN 7 ELSE SumDurations(n - 1) + SceneDurations[n - 1]

NoBody == [video |-> "none", sceneCount |-> 0, totalScenes |-> 0,
           estimatedDurationSeconds |-> 0]
\* lines 373-391: what the success response holds
SuccessBody(video, n) ==
    [video |-> video, sceneCount |-> n, totalScenes |-> n + 2,
     estimatedDurationSeconds |-> SumDurations(n)]

\* a route that gives up when optimizeVideo fails
OptimizeResumeNoFallback(r) ==
    /\ rpc[r] = "optimizeResume"
    /\ LET td == tempDir[r]
           fl == IF execOk[r] THEN failed[r]
                 ELSE failed[r] \cup {<<NoUnit, "optimize">>}
       IN IF ~execOk[r]
          THEN /\ Respond(r, "Failed to optimize video")
               /\ Spend(0)
               /\ failed' = [failed EXCEPT ![r] = fl]
               /\ UNCHANGED <<fsRoot, fsTop, okBody>>
          ELSE IF "final_video.mp4" \notin fsTop[td]
          THEN /\ Respond(r, "Video file not created")
               /\ Spend(0)
               /\ failed' = [failed EXCEPT ![r] = fl \cup {<<NoUnit, "final">>}]
               /\ UNCHANGED <<fsRoot, fsTop, okBody>>
          ELSE \/ /\ Respond(r, "ok")
                  /\ okBody' = [okBody EXCEPT ![r] = SuccessBody("optimized", nScenes[r])]
                  /\ Spend(0)
                  /\ failed' = [failed EXCEPT ![r] = fl]
                  /\ UNCHANGED <<fsRoot, fsTop>>
               \/ \E bad \in CleanupChoices(td) :
                    /\ Throw(r, fl \cup {<<NoUnit, "read">>}, bad)
                    /\ Spend(1 + Cost(bad = "none"))
                    /\ UNCHANGED okBody
    /\ UNCHANGED <<now, tempDir, nScenes, idx, segments, lastAudio, cardCmd, execOk,
                   concatArg, fsSub, fsSeg, fsFrames, fsAudio, pending>>

\* lines 339-391: the raw-video fallback, the final file's check and read
OptimizeResume(r) ==
    /\ rpc[r] = "optimizeResume"
    /\ LET td == tempDir[r]
           fl == IF execOk[r] THEN failed[r]
                 ELSE failed[r] \cup {<<NoUnit, "optimize">>}
           copied == ~execOk[r] /\ "raw_video.mp4" \in fsTop[td]
           top1 == IF copied THEN fsTop[td] \cup {"final_video.mp4"} ELSE fsTop[td]
           \* copyFileSync(rawVideoPath, finalVideoPath) replaces the final file
           video == IF copied THEN "raw" ELSE "optimized"
       IN IF ~execOk[r] /\ ~copied
          THEN /\ Respond(r, "Failed to optimize video")
               /\ Spend(0)
               /\ failed' = [failed EXCEPT ![r] = fl]
               /\ UNCHANGED <<fsRoot, fsTop, okBody>>
          ELSE IF "final_video.mp4" \notin top1
          THEN /\ Respond(r, "Video file not created")
               /\ Spend(0)
               /\ failed' = [failed EXCEPT ![r] = fl \cup {<<NoUnit, "final">>}]
               /\ UNCHANGED <<fsRoot, fsTop, okBody>>
          ELSE \/ /\ Respond(r, "ok")
                  /\ okBody' = [okBody EXCEPT ![r] = SuccessBody(video, nScenes[r])]
                  /\ Spend(0)
                  /\ failed' = [failed EXCEPT ![r] = fl]
                  /\ fsTop' = [fsTop EXCEPT ![td] = top1]
                  /\ UNCHANGED fsRoot
               \/ \E bad \in CleanupChoices(td) : \* copyFileSync/readFileSync/statSync throws
                    /\ Throw(r, fl \cup {<<NoUnit, "read">>}, bad)
                    /\ Spend(1 + Cost(bad = "none"))
                    /\ UNCHANGED okBody
    /\ UNCHANGED <<now, tempDir, nScenes, idx, segments, lastAudio, cardCmd, execOk,
                   concatArg, fsSub, fsSeg, fsFrames, fsAudio, pending>>

\* time passes between the arrivals of requests
Tick ==
    /\ now < MaxClock
    /\ pending > 0
    /\ now' = now + 1
    /\ UNCHANGED <<rpc, tempDir, nScenes, idx, segments, lastAudio, cardCmd, execOk,
                   failed, concatArg, response, okBody, fsVars, pending, faultsLeft>>

InitRender ==
    /\ now = 1
    /\ rpc = [r \in Runs |-> "idle"]
    /\ tempDir = [r \in Runs |-> 0]
    /\ nScenes = [r \in Runs |-> 0]
    /\ idx = [r \in Runs |-> 0]
    /\ segments = [r \in Runs |-> <<>>]
    /\ lastAudio = [r \in Runs |-> NoAudio]
    /\ cardCmd = [r \in Runs |-> "none"]
    /\ execOk = [r \in Runs |-> FALSE]
    /\ failed = [r \in Runs |-> {}]
    /\ concatArg = [r \in Runs |-> <<>>]
    /\ response = [r \in Runs |-> "none"]
    /\ okBody = [r \in Runs |-> NoBody]
    /\ fsRoot = {}
    /\ fsSub = [t \in Tokens |-> {}]
    /\ fsTop = [t \in Tokens |-> {}]
    /\ fsSeg = [t \in Tokens |-> {}]
    /\ fsFrames = [t \in Tokens |-> {}]
    /\ fsAudio = {}

NextRender ==
    \/ Tick /\ UNCHANGED <<scriptVars, speechVars>>
    \/ \E r \in Runs :
         \/ Receive(r) /\ UNCHANGED <<scriptVars, speechVars>>
         \/ IntroCanvas(r) /\ UNCHANGED <<scriptVars, speechVars>>
         \/ IntroSilent(r) /\ UNCHANGED <<scriptVars, speechVars>>
         \/ IntroEncode(r) /\ UNCHANGED <<scriptVars, speechVars>>
         \/ SceneAudio(r) /\ UNCHANGED <<scriptVars, speechVars>>
         \/ SceneFrame(r) /\ UNCHANGED <<scriptVars, speechVars>>
         \/ SceneSegment(r) /\ UNCHANGED <<scriptVars, speechVars>>
         \/ OutroCanvas(r) /\ UNCHANGED <<scriptVars, speechVars>>
         \/ OutroSilent(r) /\ UNCHANGED <<scriptVars, speechVars>>
         \/ OutroEncode(r) /\ UNCHANGED <<scriptVars, speechVars>>
         \/ ConcatExec(r) /\ UNCHANGED <<scriptVars, speechVars>>
         \/ ConcatResume(r) /\ UNCHANGED <<scriptVars, speechVars>>
         \/ OptimizeExec(r) /\ UNCHANGED <<scriptVars, speechVars>>
         \/ OptimizeResume(r) /\ UNCHANGED <<scriptVars, speechVars>>


(***************************************************************************)
(* Properties of the render route                                           *)
(***************************************************************************)
Range(f) == {f[k] : k \in DOMAIN f}

\* intro, scene 1..N in script order, outro
FullTimeline(td, n) ==
    <<introPath(td)>> \o [k \in 1..n |-> segmentPath(td, k - 1)] \o <<outroPath(td, n)>>

PathUnit(path, n) == IF path[3] = "outro" THEN OutroUnit(n) ELSE path[2]

\* the cards and scenes of run r whose build failed
FailedUnits(r) == {f[1] : f \in failed[r]} \ {NoUnit}

BuiltTimeline(r) ==
    LET Built(path) == PathUnit(path, nScenes[r]) \notin FailedUnits(r)
    IN SelectSeq(FullTimeline(tempDir[r], nScenes[r]), Built)

C4_WorkDirRemovedAtEnd ==
    \A r \in Runs :
        (rpc[r] = "done" /\ tempDir[r] # 0) => tempDir[r] \notin fsRoot

\* C5: two runs that are in progress at the same time have distinct
\* working directories.
C5_DistinctWorkDirs ==
    \A r1 \in Runs, r2 \in Runs :
        (r1 # r2 /\ rpc[r1] \notin {"idle", "done"} /\ rpc[r2] \notin {"idle", "done"})
            => tempDir[r1] # tempDir[r2]

(***************************************************************************)
(* The script route (src/unnamed/part_001, lines 116-404).                  *)
(*                                                                          *)
(* JSON values.  A value the route looks at is kept by what the code can    *)
(* tell about it.  A string-typed field holds "absent" (no such key),       *)
(* "null", "num" (a truthy value that is not a string), "" or a non-empty   *)
(* string.  A field that holds a list or an object holds "absent", "null",  *)
(* "bad" (a truthy value of the wrong type), "incomplete" (a required       *)
(* member inside it is missing), "partial" (only optional members inside it *)
(* are missing), "freeform" (a visual whose type is a string outside the    *)
(* enum), "ok", or one of the values the code and the schema put in place   *)
(* of these.                                                                *)
(***************************************************************************)
\* most scenes in an object the LLM returns
MaxDocScenes == 2
\* most places in which that object differs from a complete script
MaxEdits == 2

Truthy(v) == v \notin {"absent", "null", ""}
IsString(v) == v \notin {"absent", "null", "num"}

\* z.array(...).optional().default(...), z.object(...).optional().default(...),
\* z.number().min(5).max(60).optional()
ValidOptional(v) ==
    v \in {"absent", "ok", "partial", "freeform", "default", "completed", "coerced"}

StringFields == {"projectName", "oneLiner"}
OptionalFields == {"techStack", "architecture", "setup", "contributorStartPoints"}
SceneStringFields == {"id", "title", "narration"}
SceneOptionalFields == {"onScreenText", "visual", "durationSec"}

NoDoc == [kind |-> "none"]

\* {}: an object with none of the keys the route reads, which is also what
\* { ...json } makes of a value that is not an object
EmptyObject ==
    [kind |-> "object", projectName |-> "absent", oneLiner |-> "absent",
     name |-> "absent", description |-> "absent", techStack |-> "absent",
     architecture |-> "absent", setup |-> "absent",
     contributorStartPoints |-> "absent", scenes |-> "absent", items |-> <<>>]

\* a JSON value that is not an object
Scalar == [EmptyObject EXCEPT !.kind = "scalar"]

SceneId(k) == "scene-" \o ToString(k)
SceneTitle(k) == "Scene " \o ToString(k)

\* a scene as the prompt's schemaHint asks for it
CompleteScene(k) ==
    [kind |-> "object", id |-> SceneId(k), title |-> "T", narration |-> "N",
     description |-> "absent", onScreenText |-> "ok", visual |-> "ok",
     durationSec |-> "ok"]

\* a script as the prompt's schemaHint asks for it, with n scenes
CompleteScript(n) ==
    [kind |-> "object", projectName |-> "P", oneLiner |-> "O",
     name |-> "absent", description |-> "absent", techStack |-> "ok",
     architecture |-> "ok", setup |-> "ok", contributorStartPoints |-> "ok",
     scenes |-> "array", items |-> [k \in 1..n |-> CompleteScene(k)]]

\* an array element that is not an object: null, or a number, string, boolean
NonObjectScene(kind) ==
    [kind |-> kind, id |-> "absent", title |-> "absent", narration |-> "absent",
     description |-> "absent", onScreenText |-> "absent", visual |-> "absent",
     durationSec |-> "absent"]

(***************************************************************************)
(* onboardingScriptSchema.safeParse: the issues, as <<scene number or 0,    *)
(* field>>, and parsed.data                                                 *)
(***************************************************************************)
SceneIssues(s, k) ==
    IF s.kind # "object" THEN {<<k, "root">>}
    ELSE {<<k, f>> : f \in {g \in SceneStringFields : ~IsString(s[g])}}
         \cup {<<k, f>> : f \in {g \in SceneOptionalFields : ~ValidOptional(s[g])}}

Issues(d) ==
    IF d.kind # "object" THEN {<<0, "root">>}
    ELSE {<<0, f>> : f \in {g \in StringFields : ~IsString(d[g])}}
         \cup {<<0, f>> : f \in {g \in OptionalFields : ~ValidOptional(d[g])}}
         \cup (IF d.scenes # "array" THEN {<<0, "scenes">>}
               ELSE UNION {SceneIssues(d.items[k], k) : k \in 1..Len(d.items)})

\* .optional().default(...): a missing value becomes the default, missing
\* optional members inside a value are filled in; .transform of visual.type:
\* a type outside the enum becomes "bullet_list"
WithDefault(v) ==
    IF v = "absent" THEN "default"
    ELSE IF v = "partial" THEN "completed"
    ELSE IF v = "freeform" THEN "coerced"
    ELSE v

SceneData(s) ==
    [s EXCEPT !.description = "absent",
              !.onScreenText = WithDefault(@),
              !.visual = WithDefault(@)]

\* parsed.data of a successful safeParse: unknown keys stripped, defaults filled
ParsedData(d) ==
    [d EXCEPT !.name = "absent", !.description = "absent",
              !.techStack = WithDefault(@),
              !.architecture = WithDefault(@),
              !.setup = WithDefault(@),
              !.contributorStartPoints = WithDefault(@),
              !.items = [k \in 1..Len(d.items) |-> SceneData(d.items[k])]]

(***************************************************************************)
(* lines 318-345: `fixed`                                                   *)
(***************************************************************************)
Spread(d) == IF d.kind = "object" THEN d ELSE EmptyObject

\* s.id on a null array element throws a TypeError
FixThrows(d) ==
    /\ Spread(d).scenes = "array"
    /\ \E k \in 1..Len(Spread(d).items) : Spread(d).items[k].kind = "null"

FixScene(s, k) ==
    [kind |-> "object",
     id |-> IF Truthy(s.id) THEN s.id ELSE SceneId(k),
     title |-> IF Truthy(s.title) THEN s.title ELSE SceneTitle(k),
     narration |-> IF Truthy(s.narration) THEN s.narration
                   ELSE IF Truthy(s.description) THEN s.description ELSE "",
     description |-> "absent",
     onScreenText |-> IF Truthy(s.onScreenText) THEN s.onScreenText ELSE "default",
     visual |-> IF Truthy(s.visual) THEN s.visual ELSE "default",
     durationSec |-> s.durationSec]

\* lines 318-345 without lines 321-323
FixedKeepScenes(d) ==
    LET f == Spread(d)
        items1 == IF f.scenes = "array" THEN f.items ELSE <<>>
    IN [f EXCEPT
          !.projectName = IF ~Truthy(f.projectName) /\ Truthy(f.name)
                          THEN f.name ELSE f.projectName,
          !.oneLiner = IF ~Truthy(f.oneLiner) /\ Truthy(f.description)
                       THEN f.description ELSE f.oneLiner,
          !.items = [k \in 1..Len(items1) |-> FixScene(items1[k], k)]]

Fixed(d) ==
    LET f == Spread(d)
        items1 == IF f.scenes = "array" THEN f.items ELSE <<>>
    IN [f EXCEPT
          !.scenes = "array",
          !.projectName = IF ~Truthy(f.projectName) /\ Truthy(f.name)
                          THEN f.name ELSE f.projectName,
          !.oneLiner = IF ~Truthy(f.oneLiner) /\ Truthy(f.description)
                       THEN f.description ELSE f.oneLiner,
          !.items = [k \in 1..Len(items1) |-> FixScene(items1[k], k)]]

(***************************************************************************)
(* lines 352-360: `minimal`                                                 *)
(***************************************************************************)
OrDefault(v, dflt) == IF Truthy(v) THEN v ELSE dflt

Minimal(fx) ==
    [kind |-> "object",
     projectName |-> OrDefault(fx.projectName, "Unknown Project"),
     oneLiner |-> OrDefault(fx.oneLiner, "A software project"),
     name |-> "absent", description |-> "absent",
     techStack |-> OrDefault(fx.techStack, "default"),
     architecture |-> OrDefault(fx.architecture, "default"),
     setup |-> OrDefault(fx.setup, "default"),
     contributorStartPoints |-> OrDefault(fx.contributorStartPoints, "default"),
     scenes |-> fx.scenes, items |-> fx.items]

(***************************************************************************)
(* The responses of the script route                                        *)
(***************************************************************************)
NoResult ==
    [kind |-> "none", status |-> 0, error |-> "", retryable |-> "absent",
     rawText |-> <<>>, rawJson |-> NoDoc, issues |-> {}, attemptedFix |-> NoDoc,
     script |-> NoDoc, validations |-> 0]

OkResult(script, n) ==
    [NoResult EXCEPT !.kind = "ok", !.status = 200, !.script = script,
                     !.validations = n]

SchemaError(issues, raw, fx) ==
    [NoResult EXCEPT !.kind = "error", !.status = 500,
                     !.error = "Invalid JSON schema from model",
                     !.issues = issues, !.rawJson = raw, !.attemptedFix = fx,
                     !.validations = 3]

\* what the route looks for in an error's message
Markers == {"overloaded", "503", "429", "RESOURCE_EXHAUSTED", "UNAVAILABLE"}

\* an Error: its message, and which of the markers the message contains
Error(message, markers) == [message |-> message, markers |-> markers]

\* lines 386-403: the catch block
CatchResult(err) ==
    LET isOverloaded == "overloaded" \in err.markers \/ "503" \in err.markers
        isRateLimit == "429" \in err.markers \/ "RESOURCE_EXHAUSTED" \in err.markers
    IN [NoResult EXCEPT
          !.kind = "error", !.status = 500,
          !.error = IF isOverloaded THEN "The Gemini API is currently overloaded."
                    ELSE IF isRateLimit THEN "Rate limit exceeded."
                    ELSE err.message,
          !.retryable = IF isOverloaded \/ isRateLimit THEN "true" ELSE "false"]

\* the schema error reports parsed.error.issues after `parsed` was reassigned
ReportedIssues(d) == Issues(Fixed(d))

\* lines 313-385 with the repair applied whatever line 314 finds
ScriptResultAlwaysFix(d) ==
    IF FixThrows(d) THEN CatchResult(Error("TypeError", {}))
    ELSE IF Issues(Fixed(d)) = {} THEN OkResult(ParsedData(Fixed(d)), 2)
    ELSE IF Issues(Minimal(Fixed(d))) = {}
         THEN OkResult(ParsedData(Minimal(Fixed(d))), 3)
    ELSE SchemaError(ReportedIssues(d), d, Fixed(d))

\* lines 313-385: validation and repair of the parsed value
ScriptResult(d) ==
    IF Issues(d) = {} THEN OkResult(ParsedData(d), 1)
    ELSE IF FixThrows(d) THEN CatchResult(Error("TypeError", {}))
    ELSE IF Issues(Fixed(d)) = {} THEN OkResult(ParsedData(Fixed(d)), 2)
    ELSE IF Issues(Minimal(Fixed(d))) = {}
         THEN OkResult(ParsedData(Minimal(Fixed(d))), 3)
    ELSE SchemaError(ReportedIssues(d), d, Fixed(d))

(***************************************************************************)
(* The objects an LLM response may hold: a complete script changed in at    *)
(* most MaxEdits places.  An edit is <<scene number or 0, field, value>>.   *)
(***************************************************************************)
StringEdits == {"absent", "null", "num", ""}
ObjectEdits == {"absent", "null", "bad", "incomplete", "partial"}
ListEdits == {"absent", "null", "bad"}

TopEdits ==
    {<<0, f, v>> : f \in StringFields, v \in StringEdits}
    \cup {<<0, "name", v>> : v \in {"Nm", "num"}}
    \cup {<<0, "description", v>> : v \in {"Ds", "num"}}
    \cup {<<0, "techStack", v>> : v \in ListEdits}
    \cup {<<0, f, v>> : f \in {"architecture", "contributorStartPoints"}, v \in ObjectEdits}
    \cup {<<0, "setup", v>> : v \in ObjectEdits \ {"incomplete"}}
    \cup {<<0, "scenes", v>> : v \in ListEdits}
    \cup {<<0, "kind", "scalar">>}

SceneEdits(n) ==
    {<<k, f, v>> : k \in 1..n, f \in {"title", "narration"}, v \in StringEdits}
    \cup {<<k, "id", v>> : k \in 1..n, v \in StringEdits \cup {SceneId(j) : j \in 1..n}}
    \cup {<<k, "description", "Ds">> : k \in 1..n}
    \cup {<<k, "onScreenText", v>> : k \in 1..n, v \in ListEdits}
    \cup {<<k, "visual", v>> : k \in 1..n, v \in ObjectEdits \cup {"freeform"}}
    \cup {<<k, "durationSec", v>> : k \in 1..n, v \in ListEdits}
    \cup {<<k, "kind", v>> : k \in 1..n, v \in {"null", "scalar"}}

ApplyEdit(d, e) ==
    IF e[1] = 0
    THEN IF e[2] = "kind" THEN Scalar
         ELSE IF e[2] = "scenes" THEN [d EXCEPT !.scenes = e[3], !.items = <<>>]
         ELSE [d EXCEPT ![e[2]] = e[3]]
    ELSE IF e[1] > Len(d.items) THEN d
    ELSE IF e[2] = "kind" THEN [d EXCEPT !.items[e[1]] = NonObjectScene(e[3])]
    ELSE IF d.items[e[1]].kind # "object" THEN d
    ELSE [d EXCEPT !.items[e[1]][e[2]] = e[3]]

RECURSIVE ApplyEdits(_, _)
ApplyEdits(d, es) ==
    IF es = <<>> THEN d ELSE ApplyEdits(ApplyEdit(d, Head(es)), Tail(es))

\* the elements of a set, in a fixed order
RECURSIVE SeqOf(_)
SeqOf(S) ==
    IF S = {} THEN <<>>
    ELSE LET e == CHOOSE x \in S : TRUE IN <<e>> \o SeqOf(S \ {e})

\* every edit of a script with MaxDocScenes scenes, in a fixed order
EditSeq == SeqOf(TopEdits \cup SceneEdits(MaxDocScenes))

\* the edits that apply to a script with n scenes, as places in EditSeq
EditPlaces(n) == {i \in 1..Len(EditSeq) : EditSeq[i][1] <= n}

\* a list of places in increasing order
Increasing(is) == \A j \in 1..(Len(is) - 1) : is[j] < is[j + 1]

\* an edit that only removes a key, at top level or inside a nested value
IsRemoval(e) == e[3] \in {"absent", "incomplete", "partial"}

(***************************************************************************)
(* The text of an LLM response, as a sequence of runs of characters: "o" is *)
(* the serialised script object, from its opening brace to its closing      *)
(* brace; "{" is an opening brace that belongs to no object; "p" is a       *)
(* character of prose, without braces.  The object run is two characters    *)
(* wide, its two braces, so that the offsets indexOf, lastIndexOf and slice *)
(* work with are offsets in characters.                                     *)
(***************************************************************************)
\* longest response text, in runs
MaxText == 2
\* most markers in one error message
MaxMarkers == 1

TextTokens == {"p", "{", "o"}
Texts == UNION {[1..n -> TextTokens] : n \in 0..MaxText}

\* the characters of a run
Chars(c) == IF c = "o" THEN <<"{", "}">> ELSE <<c>>
Width(c) == Len(Chars(c))
\* the offset of the first character of the i-th run
Offset(t, i) == (i - 1) + Cardinality({j \in 1..(i - 1) : t[j] = "o"})
Contains(c, ch) == \E k \in 1..Width(c) : Chars(c)[k] = ch

\* String.prototype.indexOf / lastIndexOf, 0-based, -1 if absent
indexOf(t, ch) ==
    IF \E i \in 1..Len(t) : Contains(t[i], ch)
    THEN LET i == CHOOSE i \in 1..Len(t) :
                    Contains(t[i], ch) /\ \A j \in 1..(i - 1) : ~Contains(t[j], ch)
             k == CHOOSE k \in 1..Width(t[i]) :
                    Chars(t[i])[k] = ch /\ \A m \in 1..(k - 1) : Chars(t[i])[m] # ch
         IN Offset(t, i) + k - 1
    ELSE 0 - 1

lastIndexOf(t, ch) ==
    IF \E i \in 1..Len(t) : Contains(t[i], ch)
    THEN LET i == CHOOSE i \in 1..Len(t) :
                    Contains(t[i], ch) /\ \A j \in (i + 1)..Len(t) : ~Contains(t[j], ch)
             k == CHOOSE k \in 1..Width(t[i]) :
                    Chars(t[i])[k] = ch
                    /\ \A m \in (k + 1)..Width(t[i]) : Chars(t[i])[m] # ch
         IN Offset(t, i) + k - 1
    ELSE 0 - 1

\* the runs of t between two offsets; an object cut short is a fragment "x"
RECURSIVE Pieces(_, _, _, _)
Pieces(t, i, start, end) ==
    IF i > Len(t) THEN <<>>
    ELSE LET from == Offset(t, i)
             to == from + Width(t[i])
             piece == IF start <= from /\ to <= end THEN <<t[i]>>
                      ELSE IF to <= start \/ end <= from THEN <<>>
                      ELSE <<"x">>
         IN piece \o Pieces(t, i + 1, start, end)

\* slice that stops one character early
sliceExclusive(t, start, end) == Pieces(t, 1, start, end - 1)
\* String.prototype.slice(start, end) with 0 <= start <= end <= length
slice(t, start, end) == Pieces(t, 1, start, end)

\* a JSON.parse that throws on every text
ParsesAsJsonNever(t) == FALSE
\* JSON.parse returns a value, and does not throw
ParsesAsJson(t) == t = <<"o">>

\* the scripts the model may write for the repository: a complete one, and
\* one the schema repair has to complete
LLMDocs ==
    {ApplyEdits(CompleteScript(1), es) : es \in {<<>>, <<<<1, "id", "absent">>>>}}

\* JSON.parse of a text that parses, whose object run spells the script doc
JSONparse(t, doc) == IF t = <<"o">> THEN doc ELSE NoDoc

\* the errors generateContent may reject with
LLMErrors ==
    {Error("llm", m) : m \in {x \in SUBSET Markers : Cardinality(x) <= MaxMarkers}}

maxRetries == 3

\* line 265: isRateLimit of the retry loop
isRateLimit(err) == err.markers # {}

\* line 271 with every failure retried
ShouldRetryAny(err, att) == att < maxRetries - 1

\* line 271
ShouldRetry(err, att) == isRateLimit(err) /\ att < maxRetries - 1

\* line 273 with the same delay every time
delayMsConstant(att) == 2000
\* line 273 with a linear delay
delayMsLinear(att) == (att + 1) * 1000
\* line 273: Math.pow(2, attempt + 1) * 1000
delayMs(att) == 2 ^ (att + 1) * 1000

\* the LLM calls made so far: the re-prompt or not, and how the call ended
Call(extra, ok, err) == [extra |-> extra, ok |-> ok, err |-> err]
NoError == Error("", {})

Finish(res) ==
    /\ spc' = "done"
    /\ result' = res
    /\ text' = <<>>

\* line 130-136: req.json(), repoUrl, parseGitHubRepoUrl
SReceive ==
    /\ spc = "idle"
    /\ \E body \in {"no repoUrl", "not a repo url", "ok"} :
         IF body = "no repoUrl"
         THEN Finish([NoResult EXCEPT !.kind = "error", !.status = 400,
                                      !.error = "repoUrl is required"])
         ELSE IF body = "not a repo url"
         THEN Finish(CatchResult(Error("url", {})))
         ELSE spc' = "readme" /\ UNCHANGED <<result, text>>
    /\ UNCHANGED <<attempt, json, calls, delays, netCalls, geminiKey, edits, retryText, llmScript>>

\* one GitHub request settles: lines 137, 138, 146
Fetch(from, to) ==
    /\ spc = from
    /\ netCalls' = netCalls + 1
    /\ \E ok \in BOOLEAN :
         IF ok THEN spc' = to /\ UNCHANGED <<result, text>>
         ELSE Finish(CatchResult(Error("github", {})))
    /\ UNCHANGED <<attempt, json, calls, delays, geminiKey, edits, retryText, llmScript>>

fetchRepoReadme == Fetch("readme", "tree")
fetchRepoTree == Fetch("tree", "files")

\* line 146-156: the picked files arrive, then getGeminiClient
fetchTextFiles ==
    /\ spc = "files"
    /\ netCalls' = netCalls + 1
    /\ \E ok \in BOOLEAN :
         IF ~ok THEN Finish(CatchResult(Error("github", {})))
         ELSE IF ~geminiKey THEN Finish(CatchResult(Error("env", {})))
         ELSE spc' = "call" /\ UNCHANGED <<result, text>>
    /\ UNCHANGED <<attempt, json, calls, delays, geminiKey, edits, retryText, llmScript>>

\* lines 313-385 on the value JSON.parse returned
Validate(d) ==
    /\ json' = d
    /\ Finish(ScriptResult(d))

\* lines 258-311: one callOnce() of the retry loop settles
CallAttempt ==
    /\ spc = "call"
    /\ \/ \E err \in LLMErrors :
            /\ calls' = Append(calls, Call(FALSE, FALSE, err))
            /\ IF ShouldRetry(err, attempt)
               THEN /\ delays' = Append(delays, delayMs(attempt) \div 1000)
                    /\ spc' = "backoff"
                    /\ UNCHANGED <<result, text>>
               ELSE /\ Finish(CatchResult(err))
                    /\ UNCHANGED delays
            /\ UNCHANGED json
       \/ \E t \in Texts :
            /\ calls' = Append(calls, Call(FALSE, TRUE, NoError))
            /\ UNCHANGED delays
            /\ IF ParsesAsJson(t)
               THEN Validate(JSONparse(t, llmScript))
               ELSE /\ spc' = "reprompt"
                    /\ text' = t
                    /\ UNCHANGED <<result, json>>
    /\ UNCHANGED <<attempt, netCalls, geminiKey, edits, retryText, llmScript>>

\* line 274-275: the backoff timer fires, the loop goes round
Backoff ==
    /\ spc = "backoff"
    /\ attempt' = attempt + 1
    /\ spc' = "call"
    /\ UNCHANGED <<text, json, calls, delays, netCalls, geminiKey, edits, result, retryText, llmScript>>

\* lines 292-311: the corrective callOnce(extra) settles
Reprompt ==
    /\ spc = "reprompt"
    /\ \/ \E err \in LLMErrors :
            /\ calls' = Append(calls, Call(TRUE, FALSE, err))
            /\ Finish(CatchResult(err))
            /\ UNCHANGED <<json, retryText>>
       \/ \E rt \in Texts :
            LET start == indexOf(rt, "{")
                end == lastIndexOf(rt, "}")
            IN /\ calls' = Append(calls, Call(TRUE, TRUE, NoError))
               /\ retryText' = rt
               /\ IF ParsesAsJson(rt)
                  THEN Validate(JSONparse(rt, llmScript))
                  ELSE IF start >= 0 /\ end > start
                  THEN IF ParsesAsJson(slice(rt, start, end + 1))
                       THEN Validate(JSONparse(slice(rt, start, end + 1), llmScript))
                       ELSE /\ Finish(CatchResult(Error("SyntaxError", {})))
                            /\ UNCHANGED json
                  ELSE /\ Finish([NoResult EXCEPT
                                    !.kind = "error", !.status = 500,
                                    !.error = "Model did not return JSON",
                                    !.rawText = IF rt # <<>> THEN rt ELSE text])
                       /\ UNCHANGED json
    /\ UNCHANGED <<attempt, delays, netCalls, geminiKey, edits, llmScript>>

NextScript ==
    \/ SReceive /\ UNCHANGED <<renderVars, speechVars>>
    \/ fetchRepoReadme /\ UNCHANGED <<renderVars, speechVars>>
    \/ fetchRepoTree /\ UNCHANGED <<renderVars, speechVars>>
    \/ fetchTextFiles /\ UNCHANGED <<renderVars, speechVars>>
    \/ CallAttempt /\ UNCHANGED <<renderVars, speechVars>>
    \/ Backoff /\ UNCHANGED <<renderVars, speechVars>>
    \/ Reprompt /\ UNCHANGED <<renderVars, speechVars>>

\* lines 313-385 applied to a parsed value
Repair ==
    /\ spc = "parsed"
    /\ Validate(json)
    /\ UNCHANGED <<attempt, calls, delays, netCalls, geminiKey, edits, retryText, llmScript>>

NextRepair == Repair /\ UNCHANGED <<renderVars, speechVars>>

(***************************************************************************)
(* One generateSceneAudio call, await by await: generateSpeech calls the    *)
(* providers in turn (src/lib/tts.ts lines 4-25), then generateSceneAudio   *)
(* saves the audio or the silent fallback (src/lib/github.ts lines 423-470) *)
(***************************************************************************)
Try(p, o, buf) == [provider |-> p, outcome |-> o, buffer |-> buf]

\* the await of provider p settles: `if (buffer) return buffer`, else go on
AwaitProvider(p) ==
    /\ tpc = p
    /\ \E o \in ProviderOutcomes :
         LET buf == tryProvider(p, o)
             nxt == NextProvider(p, elevenKey)
         IN /\ tried' = Append(tried, Try(p, o, buf))
            /\ IF buf # "null"
               THEN audioBuffer' = buf /\ tpc' = "write"
               ELSE IF nxt = "none"
               THEN audioBuffer' = "null" /\ tpc' = "write"
               ELSE tpc' = nxt /\ UNCHANGED audioBuffer
    /\ UNCHANGED <<elevenKey, asset, narration, duration>>

AwaitGoogle == AwaitProvider("google")
AwaitElevenlabs == AwaitProvider("elevenlabs")
AwaitResponsiveVoice == AwaitProvider("responsivevoice")

\* generateSceneAudio after generateSpeech settles: lines 428-469
SaveAudio ==
    /\ tpc = "write"
    /\ \E io \in {"ok", "throw"} :
         asset' = generateSceneAudio(audioBuffer, io, 0)
    /\ tpc' = "done"
    /\ UNCHANGED <<elevenKey, tried, audioBuffer, narration, duration>>

NextSpeech ==
    \/ AwaitGoogle /\ UNCHANGED <<renderVars, scriptVars>>
    \/ AwaitElevenlabs /\ UNCHANGED <<renderVars, scriptVars>>
    \/ AwaitResponsiveVoice /\ UNCHANGED <<renderVars, scriptVars>>
    \/ SaveAudio /\ UNCHANGED <<renderVars, scriptVars>>


\* one call of estimateAudioDuration returns
EstimateDuration ==
    /\ tpc = "estimate"
    /\ duration' = estimateAudioDuration(narration)
    /\ tpc' = "estimated"
    /\ UNCHANGED <<elevenKey, tried, audioBuffer, asset, narration>>

NextDuration == EstimateDuration /\ UNCHANGED <<renderVars, scriptVars>>
(***************************************************************************)
(* Properties of the script route                                           *)
(***************************************************************************)
\* the calls of the retry loop, and the corrective re-prompts
FirstCalls == SelectSeq(calls, LAMBDA c : ~c.extra)
LastCall == calls[Len(calls)]

\* an overload or rate-limit signal in an error's message
Transient(err) ==
    err.markers \cap {"429", "503", "RESOURCE_EXHAUSTED", "UNAVAILABLE", "overloaded"} # {}

\* C6: the initial LLM call is attempted at most 3 times; every attempt but the
\* last one made failed with an overload or rate-limit signal; an attempt that
\* fails in any other way ends the request at once with an error, no further
\* call and no backoff delay; the delays are 2 s and 4 s, one after each of
\* the first two attempts that failed with a signal.
C6_RetryOnlyTransient ==
    /\ Len(FirstCalls) <= 3
    /\ \A i \in 1..(Len(FirstCalls) - 1) :
          ~FirstCalls[i].ok /\ Transient(FirstCalls[i].err)
    /\ \A i \in 1..Len(FirstCalls) :
          (~FirstCalls[i].ok /\ ~Transient(FirstCalls[i].err)) =>
             /\ i = Len(calls)
             /\ spc = "done"
             /\ result.kind = "error"
             /\ Len(delays) = i - 1
    /\ Len(delays) = Cardinality({i \in 1..Len(FirstCalls) :
                          i < 3 /\ ~FirstCalls[i].ok /\ Transient(FirstCalls[i].err)})
    /\ \A i \in 1..Len(delays) : delays[i] = 2 ^ i

\* three attempts, each failed with a signal, after delays of 2 s and 4 s; and
\* the request ended with the error
C6_Witness ==
    /\ spc = "done"
    /\ Len(calls) = 3
    /\ \A i \in 1..3 : ~calls[i].extra /\ ~calls[i].ok /\ Transient(calls[i].err)
    /\ delays = <<2, 4>>
    /\ result.kind = "error"

\* C7: a transient (overload or rate-limit) failure of an LLM call, the
\* corrective re-prompt included, reaches the caller only after 3 failed
\* attempts of that call.
C7_TransientOnlyAfterExhaustion ==
    (spc = "done" /\ calls # <<>> /\ ~LastCall.ok /\ Transient(LastCall.err)) =>
        Len(SelectSeq(calls, LAMBDA c : c.extra = LastCall.extra /\ ~c.ok)) = 3

\* C8: when the first response, the re-prompt's response and the salvaged
\* substring all fail to parse (no value was ever parsed although the
\* re-prompt was answered), the result is the 'Model did not return JSON'
\* error.
C8_UnparseableIsNotJsonError ==
    (spc = "done" /\ calls # <<>> /\ LastCall.extra /\ LastCall.ok /\ json = NoDoc) =>
        /\ result.kind = "error"
        /\ result.error = "Model did not return JSON"

\* C9: the schema-error result carries the issues of the object as it was
\* parsed, the object itself, and the attempted repair.
C9_SchemaErrorCarriesOriginalIssues ==
    (spc = "done" /\ result.error = "Invalid JSON schema from model") =>
        /\ result.issues = Issues(json)
        /\ result.rawJson = json
        /\ result.attemptedFix = Fixed(json)

\* C10: an object obtained from a complete script by only removing fields is
\* always repaired to a valid script.
C10_RemovalsAlwaysRepaired ==
    (spc = "done" /\ \A i \in 1..Len(edits) : IsRemoval(edits[i])) =>
        /\ result.kind = "ok"
        /\ Issues(result.script) = {}

\* the object JSON.parse returned has been validated and repaired
Repaired == spc = "done" /\ json.kind = "object"

\* a value the schema's output keeps as it is
KeptBySchema(v) == v \notin {"absent", "partial", "freeform"}

\* the object has every optional field, and no key the schema does not know
IsInstance(d) ==
    /\ d.name = "absent" /\ d.description = "absent"
    /\ \A f \in OptionalFields : KeptBySchema(d[f])
    /\ \A k \in 1..Len(d.items) :
          /\ d.items[k].description = "absent"
          /\ \A f \in {"onScreenText", "visual"} : KeptBySchema(d.items[k][f])

\* C11: an object that satisfies the schema is returned unchanged, without
\* any repair.
C11_ValidReturnedUnchanged ==
    (Repaired /\ Issues(json) = {}) =>
        /\ result.kind = "ok"
        /\ result.validations = 1
        /\ result.script = json

\* C11 as the code has it: an object that satisfies the schema is returned
\* after one validation and no repair; the script returned has the object's
\* value in every field the object has, except that the schema fills the
\* defaults of missing optional fields and members, replaces a visual type
\* outside the enum, and drops unknown keys; it is the object itself when
\* none of these applies.
C11_ValidReturnedAsParsed ==
    (Repaired /\ Issues(json) = {}) =>
        /\ result.kind = "ok"
        /\ result.validations = 1
        /\ \A f \in StringFields : result.script[f] = json[f]
        /\ \A f \in OptionalFields :
              /\ KeptBySchema(json[f]) => result.script[f] = json[f]
              /\ json[f] = "absent" => result.script[f] = "default"
        /\ result.script.name = "absent" /\ result.script.description = "absent"
        /\ Len(result.script.items) = Len(json.items)
        /\ \A k \in 1..Len(json.items) :
              /\ \A f \in SceneStringFields \cup {"durationSec"} :
                    result.script.items[k][f] = json.items[k][f]
              /\ \A f \in {"onScreenText", "visual"} :
                    /\ KeptBySchema(json.items[k][f]) =>
                          result.script.items[k][f] = json.items[k][f]
                    /\ json.items[k][f] = "absent" =>
                          result.script.items[k][f] = "default"
        /\ IsInstance(json) => result.script = json

\* a valid object without techStack and with an empty scene id was returned
C11_Witness ==
    /\ Repaired
    /\ Issues(json) = {}
    /\ json.techStack = "absent"
    /\ Len(json.items) = 2
    /\ json.items[1].id = ""
    /\ result.kind = "ok"
    /\ result.script.items[1].id = ""

\* C12: the normalization pass and the minimal construction leave every value
\* that was valid and present unchanged.
C12_RepairKeepsValidValues ==
    (Repaired /\ Issues(json) # {} /\ ~FixThrows(json)) =>
        LET fx == Fixed(json)
            mn == Minimal(fx)
        IN /\ \A f \in StringFields :
                 IsString(json[f]) => fx[f] = json[f] /\ mn[f] = json[f]
           /\ \A f \in OptionalFields :
                 (ValidOptional(json[f]) /\ json[f] # "absent") =>
                    fx[f] = json[f] /\ mn[f] = json[f]
           /\ \A k \in 1..Len(json.items) :
                 json.items[k].kind = "object" =>
                    /\ \A f \in SceneStringFields :
                          IsString(json.items[k][f]) =>
                             /\ fx.items[k][f] = json.items[k][f]
                             /\ mn.items[k][f] = json.items[k][f]
                    /\ \A f \in SceneOptionalFields :
                          (ValidOptional(json.items[k][f]) /\ json.items[k][f] # "absent") =>
                             /\ fx.items[k][f] = json.items[k][f]
                             /\ mn.items[k][f] = json.items[k][f]

\* C13: the scene ids of a returned script are pairwise distinct.
C13_SceneIdsUnique ==
    (Repaired /\ result.kind = "ok") =>
        \A i, j \in 1..Len(result.script.items) :
           i # j => result.script.items[i].id # result.script.items[j].id

\* C14: without GEMINI_API_KEY the environment error is reported before any
\* network call, to GitHub or to the LLM, is made.
C14_EnvErrorBeforeNetwork ==
    (~geminiKey /\ spc = "done" /\ result.error = "env") =>
        netCalls = 0 /\ calls = <<>>

\* C15: when an LLM call's error reaches the catch block, the error result
\* has retryable = true exactly if the message holds one of the signals the
\* retry loop looks for, and retryable = false otherwise.
C15_RetryableIffTransient ==
    (spc = "done" /\ calls # <<>> /\ ~LastCall.ok) =>
        /\ result.kind = "error"
        /\ result.retryable = IF Transient(LastCall.err) THEN "true" ELSE "false"

\* C19: the 'Failed to generate any video segments' error is returned only
\* when no card and no scene produced a segment; a run for a script without
\* scenes in which both cards succeeded and nothing else failed ends in the
\* success response, having concatenated exactly the intro and the outro.
C19_FailsOnlyWithoutSegments ==
    \A r \in Runs :
        /\ response[r] = "Failed to generate any video segments" =>
              /\ segments[r] = <<>>
              /\ concatArg[r] = <<>>
              /\ BuiltTimeline(r) = <<>>
        /\ (rpc[r] = "done" /\ nScenes[r] = 0 /\ Len(segments[r]) = 2 /\ failed[r] = {}) =>
              /\ response[r] = "ok"
              /\ concatArg[r] = <<introPath(tempDir[r]), outroPath(tempDir[r], 0)>>

\* a script without scenes was rendered from the two cards
C19_Witness ==
    \E r \in Runs :
        /\ response[r] = "ok"
        /\ nScenes[r] = 0
        /\ failed[r] = {}
        /\ Len(concatArg[r]) = 2

(***************************************************************************)
(* Properties of the narration chain                                        *)
(***************************************************************************)
\* generateSpeech has settled
SpeechSettled == tpc \in {"write", "done"}

ProviderRank(p) ==
    IF p = "google" THEN 1 ELSE IF p = "elevenlabs" THEN 2 ELSE 3

\* the calls whose response had a body of at least one byte
NonEmptyTries == {i \in 1..Len(tried) : tried[i].outcome \in {"small", "audio"}}

\* C16: generateSpeech resolves to the body of the first provider called whose
\* response is non-empty, and to null if there is none; it never resolves to
\* an empty buffer.
C16_FirstNonEmptyWins ==
    SpeechSettled =>
        /\ audioBuffer # "empty"
        /\ IF NonEmptyTries = {} THEN audioBuffer = "null"
           ELSE audioBuffer =
                  tried[CHOOSE i \in NonEmptyTries : \A j \in NonEmptyTries : i <= j].outcome

\* C17: providers are called in the order Google, ElevenLabs, ResponsiveVoice,
\* starting with Google; ElevenLabs is called only if ELEVENLABS_API_KEY is
\* set, and then right after Google; no provider is called after one
\* returned a buffer; null is the result only after every eligible provider
\* was called.
C17_FixedOrderKeyGated ==
    /\ \A i, j \in 1..Len(tried) :
          i < j => ProviderRank(tried[i].provider) < ProviderRank(tried[j].provider)
    /\ tried # <<>> => tried[1].provider = "google"
    /\ \A i \in 1..Len(tried) : tried[i].provider = "elevenlabs" => elevenKey
    /\ (elevenKey /\ Len(tried) >= 2) => tried[2].provider = "elevenlabs"
    /\ \A i \in 1..(Len(tried) - 1) : tried[i].buffer = "null"
    /\ (SpeechSettled /\ audioBuffer = "null") =>
          /\ Len(tried) = IF elevenKey THEN 3 ELSE 2
          /\ tried[Len(tried)].provider = "responsivevoice"

\* with the key set, all three providers were called in turn
C17_Witness ==
    /\ tpc = "done"
    /\ elevenKey
    /\ Len(tried) = 3
    /\ tried[2].provider = "elevenlabs"
    /\ tried[3].provider = "responsivevoice"

\* C18: a provider's thrown error or non-ok status leaves neither
\* generateSpeech nor generateSceneAudio as an exception: the provider
\* function returns null, and the next provider in order is called, or null
\* is the result after the last one.
C18_ProviderErrorsContained ==
    /\ audioBuffer # "thrown"
    /\ asset.kind \in {"none", "null", "silent", "tts"}
    /\ \A i \in 1..Len(tried) :
          tried[i].outcome \in ProviderFailures =>
             /\ tried[i].buffer = "null"
             /\ IF tried[i].provider = "responsivevoice"
                THEN SpeechSettled /\ audioBuffer = "null"
                ELSE LET nxt == IF tried[i].provider = "google" /\ elevenKey
                                THEN "elevenlabs" ELSE "responsivevoice"
                     IN IF i < Len(tried) THEN tried[i + 1].provider = nxt
                        ELSE tpc = nxt

\* every provider failed, by an error or by its status, and the silent file
\* was returned
C18_Witness ==
    /\ tpc = "done"
    /\ Len(tried) = 3
    /\ tried[1].outcome = "throw"
    /\ tried[2].outcome = "status"
    /\ tried[3].outcome = "throw"
    /\ audioBuffer = "null"
    /\ asset.kind = "silent"

\* C20: an object without a scenes field always ends as a valid script with
\* no scenes.
C20_MissingScenesAlwaysRepaired ==
    (Repaired /\ json.scenes = "absent") =>
        /\ result.kind = "ok"
        /\ result.script.scenes = "array"
        /\ result.script.items = <<>>

\* C20 as the code has it: for an object without a scenes field the repair
\* always puts an empty scenes list in place, and the missing field is never
\* what the schema error reports: the route returns ok with no scenes unless
\* another field of the repaired object is invalid, and it does return ok
\* when the object's other schema fields are valid and it has no other key.
C20_MissingScenesNeverTheFailure ==
    (Repaired /\ json.scenes = "absent") =>
        /\ result.kind = "ok" =>
              /\ result.script.scenes = "array"
              /\ result.script.items = <<>>
        /\ result.kind # "ok" =>
              /\ result.error = "Invalid JSON schema from model"
              /\ result.attemptedFix.scenes = "array"
              /\ result.attemptedFix.items = <<>>
              /\ result.issues # {}
              /\ <<0, "scenes">> \notin result.issues
        /\ (/\ Issues(json) = {<<0, "scenes">>}
            /\ json.name = "absent"
            /\ json.description = "absent") =>
              /\ result.kind = "ok"
              /\ result.validations = 2

\* an object that lacks only scenes was repaired
C20_Witness ==
    /\ Repaired
    /\ json.scenes = "absent"
    /\ Issues(json) = {<<0, "scenes">>}
    /\ edits = <<<<0, "scenes", "absent">>>>
    /\ result.kind = "ok"
    /\ result.script.items = <<>>

(***************************************************************************)
(* Parse repair and the retry loop, in a whole script request               *)
(***************************************************************************)
\* the texts with one object and prose, and nothing else, around it
ProseAroundObject ==
    {t \in Texts : /\ Len(t) > 1
                   /\ Cardinality({i \in 1..Len(t) : t[i] = "o"}) = 1
                   /\ \A i \in 1..Len(t) : t[i] \in {"o", "p"}}

C22_OneBackoffThenSuccess ==
    (Len(FirstCalls) >= 2 /\ FirstCalls[2].ok) =>
        /\ ~FirstCalls[1].ok /\ Transient(FirstCalls[1].err)
        /\ Len(FirstCalls) = 2
        /\ delays = <<2>>
        /\ attempt = 1
        /\ netCalls = 3
        /\ spc \in {"reprompt", "done"}
        /\ spc = "reprompt" => ~ParsesAsJson(text) /\ Len(calls) = 2
        /\ (spc = "done" /\ Len(calls) = 2) =>
               json = llmScript /\ result = ScriptResult(llmScript)
        /\ Len(calls) <= 3

C22_Witness ==
    /\ Len(calls) = 2
    /\ ~calls[1].ok /\ Transient(calls[1].err)
    /\ calls[2].ok /\ ~calls[2].extra
    /\ delays = <<2>>
    /\ spc = "done"
    /\ result.kind = "ok"

(***************************************************************************)
(* estimateAudioDuration                                                    *)
(***************************************************************************)
\* the words of a narration
Words(t) == Cardinality({i \in 1..Len(t) : t[i] = "w"})

\* C23: for every narration, with W its number of words (maximal runs of
\* characters that are not whitespace), estimateAudioDuration returns
\* max(5, ceil(W / 2.5)); 0 words give 5, 13 words 6 and 125 words 50.
C23_DurationFromWordCount ==
    tpc = "estimated" =>
        /\ duration = Max(5, CeilDiv2p5(Words(narration)))
        /\ Words(narration) = 0 => duration = 5
        /\ Words(narration) = 13 => duration = 6
        /\ Words(narration) = 125 => duration = 50

(***************************************************************************)
(* The files of a render run                                                *)
(***************************************************************************)
\* C24: with two render runs interleaved, from the return of
\* generateSceneAudio to the end of createVideoSegment the audio file of the
\* run's scene holds the audio that this run wrote for the scene.
C24_AudioFileIsOwn ==
    \A r \in Runs :
        rpc[r] \in {"frame", "segment"} =>
            <<AudioFile(lastAudio[r]), <<r, lastAudio[r].speech>>>> \in fsAudio

\* C25: every file a render run writes is under its own working directory:
\* none is in the process-wide tmp/audio.
C25_ArtifactsUnderWorkDir == fsAudio = {}

\* what the file of a segment of run r holds: "av", "v" or "empty"
SegmentData(r, path) ==
    {f[2] : f \in {g \in fsSeg[tempDir[r]] : g[1] = SegFileName(path)}}

\* C26: every segment in a run's list, the intro and the outro card
\* included, holds a video and an audio stream; no card in the list is a
\* video-only file.
C26_SegmentsHaveAudio ==
    \A r \in Runs : \A i \in 1..Len(segments[r]) :
        /\ SegmentData(r, segments[r][i]) = {"av"}
        /\ segments[r][i][3] \in {"intro", "outro"} =>
               "v" \notin SegmentData(r, segments[r][i])

\* C27: createVideoSegment reports success only if its output file exists
\* and is not empty: no scene segment in a run's list is a file of zero bytes.
C27_NoEmptySegmentAdded ==
    \A r \in Runs : \A i \in 1..Len(segments[r]) :
        segments[r][i][3] = "scene" =>
            /\ SegmentData(r, segments[r][i]) # {}
            /\ "empty" \notin SegmentData(r, segments[r][i])

\* C28: once concatenateVideos has returned, with success or with failure,
\* the manifest concat.txt it wrote is no longer in the working directory.
C28_ManifestRemoved ==
    \A r \in Runs :
        (concatArg[r] # <<>> /\ rpc[r] \in {"optimizeExec", "optimizeResume", "done"})
            => "concat.txt" \notin fsTop[tempDir[r]]

(***************************************************************************)
(* The stages of a render run                                               *)
(***************************************************************************)
\* the stage an await of the route belongs to
StageRank(pc) ==
    IF pc = "idle" THEN 0
    ELSE IF pc \in {"introCanvas", "introSilent", "introEncode"} THEN 1
    ELSE IF pc \in {"audio", "frame", "segment"} THEN 2
    ELSE IF pc \in {"outroCanvas", "outroSilent", "outroEncode"} THEN 3
    ELSE IF pc \in {"concatExec", "concatResume"} THEN 4
    ELSE IF pc \in {"optimizeExec", "optimizeResume"} THEN 5
    ELSE 6

\* what belongs to run r alone
RunState(r) ==
    <<rpc[r], tempDir[r], nScenes[r], idx[r], segments[r], lastAudio[r], cardCmd[r],
      execOk[r], failed[r], concatArg[r], response[r]>>

StageStep(r) ==
    /\ StageRank(rpc'[r]) >= StageRank(rpc[r])
    \* the directory exists before the intro card
    /\ (rpc[r] = "idle" /\ rpc'[r] \notin {"idle", "done"}) =>
           rpc'[r] = "introCanvas" /\ tempDir'[r] \in fsRoot'
    \* scenes in index order, each index once
    /\ (StageRank(rpc[r]) = 1 /\ StageRank(rpc'[r]) = 2) => idx'[r] = 0
    /\ StageRank(rpc[r]) = 2 =>
           /\ idx'[r] \in {idx[r], idx[r] + 1}
           /\ RunState(r)' # RunState(r) =>
                  (idx'[r] = idx[r] + 1 <=> rpc'[r] \in {"audio", "outroCanvas"})
           /\ rpc'[r] = "outroCanvas" => idx'[r] = nScenes[r]
    /\ (StageRank(rpc[r]) = 1 /\ StageRank(rpc'[r]) = 3) => nScenes[r] = 0
    \* concatenation after the outro card, never with an empty list
    /\ (StageRank(rpc[r]) < 4 /\ StageRank(rpc'[r]) \in {4, 5}) =>
           /\ StageRank(rpc[r]) = 3
           /\ rpc'[r] = "concatExec"
           /\ concatArg'[r] = segments'[r]
           /\ concatArg'[r] # <<>>
    /\ concatArg'[r] # concatArg[r] => StageRank(rpc[r]) = 3 /\ concatArg'[r] # <<>>
    \* optimization only after a concatenation that succeeded
    /\ (StageRank(rpc[r]) < 5 /\ StageRank(rpc'[r]) = 5) =>
           /\ rpc[r] = "concatResume"
           /\ rpc'[r] = "optimizeExec"
           /\ execOk[r]
           /\ "raw_video.mp4" \in fsTop'[tempDir[r]]
    \* a response ends the run
    /\ response[r] # "none" => rpc[r] = "done"
    /\ rpc[r] = "done" => RunState(r)' = RunState(r)

\* C29: a render run goes through its stages in the order directory
\* creation, intro card, scenes in index order, outro card, concatenation,
\* optimization, response; concatenation is never called with an empty
\* segment list, optimization only after a concatenation that succeeded, and
\* after a response, an error response included, the run takes no further
\* step.
C29_StagesInOrder == [][\A r \in Runs : StageStep(r)]_vars

C29_Witness ==
    \E r \in Runs :
        /\ rpc[r] = "done"
        /\ response[r] = "Failed to concatenate video segments"
        /\ concatArg[r] # <<>>
        /\ ~execOk[r]
        /\ "final_video.mp4" \notin fsTop[tempDir[r]]

\* intro, scene 1..N, outro, by kind and by the ordinal of a scene's file
SegmentLabel(path) == IF path[3] = "scene" THEN <<"scene", path[2]>> ELSE <<path[3]>>
TimelineLabels(n) == <<<<"intro">>>> \o [k \in 1..n |-> <<"scene", k>>] \o <<<<"outro">>>>
LabelPosition(path, n) ==
    CHOOSE k \in 1..(n + 2) : TimelineLabels(n)[k] = SegmentLabel(path)

SceneFailures(r) == {f \in failed[r] : f[1] \in 1..nScenes[r]}

\* C31: a failure of a step of scene i (audio, frame rendering and saving,
\* segment building) only skips the scene: a run in which nothing but steps
\* of scenes failed does not end in an error response, and the segments it
\* has are those of the cards and of the scenes that did not fail.
C31_SceneFailureOnlySkips ==
    \A r \in Runs :
        (rpc[r] = "done" /\ SceneFailures(r) # {} /\ failed[r] = SceneFailures(r)) =>
            /\ response[r] = "ok"
            /\ segments[r] = BuiltTimeline(r)

(***************************************************************************)
(* Schema repair as a whole                                                 *)
(***************************************************************************)
\* C32: schema repair is total: for every parsed value, non-objects and
\* scenes lists with null or non-object entries included, the route answers
\* ok with a script that is valid for the schema, or the schema error that
\* carries issues, the raw object and the attempted repair.
C32_RepairTotal ==
    spc = "done" =>
        \/ /\ result.kind = "ok"
           /\ Issues(result.script) = {}
        \/ /\ result.kind = "error"
           /\ result.error = "Invalid JSON schema from model"
           /\ result.issues # {}
           /\ result.rawJson = json
           /\ result.attemptedFix = Fixed(json)

(***************************************************************************)
(* The end of a render run                                                  *)
(***************************************************************************)
\* C33: when optimizeVideo fails after a concatenation that succeeded, and
\* copying and reading the file do not fail in turn, the run ends in the
\* success response and the video it returns is the concatenated one.
C33_OptimizeFailureFallsBack ==
    \A r \in Runs :
        (/\ rpc[r] = "done"
         /\ <<NoUnit, "optimize">> \in failed[r]
         /\ <<NoUnit, "read">> \notin failed[r]) =>
            /\ response[r] = "ok"
            /\ okBody[r].video = "raw"
            /\ {"raw_video.mp4", "final_video.mp4"} \subseteq fsTop[tempDir[r]]

C33_Witness ==
    \E r \in Runs :
        /\ response[r] = "ok"
        /\ ~execOk[r]
        /\ <<NoUnit, "optimize">> \in failed[r]
        /\ okBody[r].video = "raw"

\* C34: cleanupTempFiles never throws to its caller, and an entry of the
\* working directory that cannot be deleted does not keep the other entries
\* from being deleted: after the cleanup of the catch block at most the one
\* entry that failed is left among the files of the directory.
C34_CleanupDeletesTheRest ==
    \A r \in Runs :
        (response[r] = "exception" /\ tempDir[r] \in Tokens) =>
            Cardinality(fsTop[tempDir[r]]) <= 1

(***************************************************************************)
(* The retry loop's delays and the number of LLM calls                      *)
(***************************************************************************)
\* every attempt of the retry loop failed with an overload or rate-limit signal
AllAttemptsTransient ==
    /\ spc = "done"
    /\ Len(FirstCalls) = maxRetries
    /\ \A i \in 1..Len(FirstCalls) :
          ~FirstCalls[i].ok /\ Transient(FirstCalls[i].err)

C36_RunTerminates ==
    \A r \in Runs : (rpc[r] # "idle") ~> (rpc[r] = "done" /\ response[r] # "none")

C36_Witness ==
    \E r \in Runs :
        /\ rpc[r] = "done"
        /\ response[r] = "ok"
        /\ nScenes[r] = MaxScenes
        /\ SceneFailures(r) # {}

\* C37: a script request validates against the schema at most 3 times (the
\* parsed value, the repaired object, the minimal object), and the repair
\* always ends with a valid script or with the schema error.
C37_AtMostThreeValidations ==
    spc = "done" =>
        /\ result.validations <= 3
        /\ \/ result.kind = "ok" /\ result.validations >= 1
           \/ /\ result.error = "Invalid JSON schema from model"
              /\ result.validations = 3

\* the seconds of a segment: the intro card 4, the outro card 3, a scene its estimate
SegmentSeconds(path) ==
    IF path[3] = "intro" THEN 4
    ELSE IF path[3] = "outro" THEN 3
    ELSE SceneDurations[path[2] - 1]

RECURSIVE SumSeconds(_)
SumSeconds(segs) ==
    IF segs = <<>> THEN 0 ELSE SegmentSeconds(Head(segs)) + SumSeconds(Tail(segs))

\* C38: in every success response metadata.totalScenes is the number of
\* segments concatenated into the video, and
\* metadata.estimatedDurationSeconds counts the scenes and cards whose
\* segment is in the video, and no other.
C38_MetadataMatchesVideo ==
    \A r \in Runs :
        response[r] = "ok" =>
            /\ okBody[r].totalScenes = Len(concatArg[r])
            /\ okBody[r].estimatedDurationSeconds = SumSeconds(concatArg[r])

\* the corrective re-prompts among the calls
ExtraCalls == SelectSeq(calls, LAMBDA c : c.extra)

\* C39: a script request makes at most 4 LLM calls, at most 3 attempts of the
\* initial call and at most 1 corrective re-prompt; the re-prompt follows the
\* attempt that succeeded, is the last call, and is made only when the text
\* of that attempt did not parse as JSON.
C39_AtMostFourCalls ==
    /\ Len(calls) <= 4
    /\ Len(FirstCalls) <= maxRetries
    /\ Len(ExtraCalls) <= 1
    /\ \A i \in 1..Len(calls) :
          calls[i].extra =>
             /\ i = Len(calls)
             /\ i > 1
             /\ calls[i - 1].ok /\ ~calls[i - 1].extra
             /\ spc = "done"
    /\ spc = "reprompt" =>
          /\ JSONparse(text, llmScript) = NoDoc
          /\ LastCall.ok /\ ~LastCall.extra
          /\ json = NoDoc
    /\ (spc = "done" /\ json # NoDoc /\ retryText = <<>> /\ ExtraCalls = <<>>) =>
          json = llmScript

C39_Witness ==
    /\ Len(calls) = 4
    /\ calls[4].extra
    /\ calls[3].ok
    /\ spc = "done"

(***************************************************************************)
(* Initial states and specifications                                        *)
(***************************************************************************)
\* no script request
NoScript ==
    /\ spc = "off"
    /\ attempt = 0
    /\ text = <<>>
    /\ json = NoDoc
    /\ calls = <<>>
    /\ delays = <<>>
    /\ netCalls = 0
    /\ geminiKey = TRUE
    /\ edits = <<>>
    /\ result = NoResult
    /\ retryText = <<>>
    /\ llmScript = NoDoc

\* no generateSceneAudio call on its own
NoSpeech ==
    /\ tpc = "off"
    /\ elevenKey = FALSE
    /\ tried = <<>>
    /\ audioBuffer = "none"
    /\ asset = NoAudio
    /\ narration = <<>>
    /\ duration = 0

\* no render request
NoRender ==
    /\ InitRender
    /\ pending = 0
    /\ faultsLeft = 0

\* one render request, any number of failures
Init ==
    /\ InitRender
    /\ pending = 1
    /\ faultsLeft = 0 - 1
    /\ NoScript
    /\ NoSpeech

\* two render requests that may overlap, at most MaxFaults failures
InitPair ==
    /\ InitRender
    /\ pending = 2
    /\ faultsLeft = MaxFaults
    /\ NoScript
    /\ NoSpeech

\* one script request arrives; GEMINI_API_KEY is set or not
InitScript ==
    /\ NoRender
    /\ NoSpeech
    /\ spc = "idle"
    /\ attempt = 0
    /\ text = <<>>
    /\ json = NoDoc
    /\ calls = <<>>
    /\ delays = <<>>
    /\ netCalls = 0
    /\ geminiKey \in BOOLEAN
    /\ edits = <<>>
    /\ result = NoResult
    /\ retryText = <<>>
    /\ llmScript \in LLMDocs

\* JSON.parse has returned a complete script changed in at most MaxEdits places
InitRepair ==
    /\ NoRender
    /\ NoSpeech
    /\ spc = "parsed"
    /\ attempt = 0
    /\ text = <<>>
    /\ calls = <<>>
    /\ delays = <<>>
    /\ netCalls = 0
    /\ geminiKey = TRUE
    /\ result = NoResult
    /\ retryText = <<>>
    /\ llmScript = NoDoc
    /\ \E n \in 0..MaxDocScenes, k \in 0..MaxEdits :
         \E is \in [1..k -> EditPlaces(n)] :
            /\ Increasing(is)
            /\ edits = [j \in 1..k |-> EditSeq[is[j]]]
            /\ json = ApplyEdits(CompleteScript(n), edits)

\* generateSceneAudio is called for one scene; ELEVENLABS_API_KEY is set or not
InitSpeech ==
    /\ NoRender
    /\ NoScript
    /\ tpc = "google"
    /\ elevenKey \in BOOLEAN
    /\ tried = <<>>
    /\ audioBuffer = "none"
    /\ asset = NoAudio
    /\ narration = <<>>
    /\ duration = 0

\* one estimateAudioDuration call on a narration
InitDuration ==
    /\ NoRender
    /\ NoScript
    /\ tpc = "estimate"
    /\ elevenKey = FALSE
    /\ tried = <<>>
    /\ audioBuffer = "none"
    /\ asset = NoAudio
    /\ narration \in Narrations
    /\ duration = 0

SpecRender == Init /\ [][NextRender]_vars
SpecPair == InitPair /\ [][NextRender]_vars
SpecScript == InitScript /\ [][NextScript]_vars
SpecRepair == InitRepair /\ [][NextRepair]_vars
SpecSpeech == InitSpeech /\ [][NextSpeech]_vars
SpecDuration == InitDuration /\ [][NextDuration]_vars

\* every await settles: each external call (TTS, canvas, ffmpeg, file
\* system) returns or fails, so a step that can be taken is taken
SpecRenderLive == Init /\ [][NextRender]_vars /\ WF_vars(NextRender)
====
